---- MODULE Spec2Model ----
(***************************************************************************)
(* Model of crdb::Database (src/src/ClangReflectCore/Database.h): the name *)
(* table m_Names, the seven named primitive stores and the unnamed Field   *)
(* store, with the operations AddPrimitive, GetFirstPrimitive, GetName,    *)
(* Merge and AddBaseTypePrimitives.                                        *)
(*                                                                         *)
(* A std::map / std::multimap is the sequence of its elements in iteration *)
(* order (sorted by key); an element is the pair [first, second].  A Name  *)
(* (NameMap::const_iterator) is the element of m_Names it points to.       *)
(* A string is the sequence of its bytes.                                  *)
(***************************************************************************)
EXTENDS Integers, Sequences, FiniteSets

VARIABLES db, last, halted

vars == <<db, last, halted>>

(***************************************************************************)
(* Bounds of the model.                                                    *)
(***************************************************************************)
\* Width in bits of the modelled name hash (u32 in the program).
HashBits == 3
\* Largest number of primitives a database holds, over all of its stores.
MaxPrims == 3
\* Largest number of primitives in a database handed to Merge.
MaxOther == 2

HashModulus == 2 ^ HashBits

(***************************************************************************)
(* Strings and hashing.                                                    *)
(***************************************************************************)
T_empty == << >>
T_int == <<105, 110, 116>>
T_Foo == <<70, 111, 111>>
T_oof == <<111, 111, 102>>

T_x == <<120>>
T_y == <<121>>
T_bool == <<98, 111, 111, 108>>
T_Bar == <<66, 97, 114>>
T_float == <<102, 108, 111, 97, 116>>
T_u == <<117>>

\* The strings the callers intern while they add primitives.
Texts == {T_int, T_Foo}
\* The strings looked up: "oof" is never interned, and its modelled hash is
\* that of "Foo".
LookupTexts == {T_int, T_Foo, T_oof}
\* The strings interned in the specification of the name table alone.
NameTexts == {T_int, T_Foo, T_oof, T_x, T_y, T_bool, T_Bar, T_float, T_u}

RECURSIVE HashFrom(_, _)
HashFrom(h, text) ==
    IF text = << >> THEN h
    ELSE HashFrom((h * 31 + Head(text)) % HashModulus, Tail(text))

\* u32 HashNameString(const char*): a deterministic hash of all the bytes.
HashNameString(text) == HashFrom(0, text)

\* The key of the reserved "no name" entry.
NoNameHash == 0

(***************************************************************************)
(* std::map and std::multimap as key-sorted sequences of pairs.            *)
(***************************************************************************)
Pair(key, val) == [first |-> key, second |-> val]

\* Position of the first element whose key is not less than key.
LowerBound(m, key) ==
    Cardinality({i \in 1..Len(m) : m[i].first < key}) + 1

\* Position of the first element whose key is greater than key.
UpperBound(m, key) ==
    Cardinality({i \in 1..Len(m) : m[i].first <= key}) + 1

InsertAt(m, pos, elem) ==
    SubSeq(m, 1, pos - 1) \o <<elem>> \o SubSeq(m, pos, Len(m))

\* multimap::insert with the element placed first among its equals.
MultimapInsert_AtLowerBound(m, key, val) ==
    InsertAt(m, LowerBound(m, key), Pair(key, val))

\* An insert that overwrites the elements of the key (map::operator[]).
MultimapInsert_Replace(m, key, val) ==
    InsertAt(SelectSeq(m, LAMBDA e : e.first # key),
             LowerBound(m, key), Pair(key, val))

\* multimap::insert: always inserts, after the elements with an equal key.
MultimapInsert(m, key, val) ==
    InsertAt(m, UpperBound(m, key), Pair(key, val))

\* multimap::find with the last of the equal elements returned.
MultimapFind_Last(m, key) ==
    IF \E i \in 1..Len(m) : m[i].first = key
    THEN <<m[UpperBound(m, key) - 1]>> ELSE << >>

\* multimap::find / map::find: the first element with the key, or end()
\* (the empty sequence).
MultimapFind(m, key) ==
    LET pos == LowerBound(m, key)
    IN  IF pos <= Len(m) /\ m[pos].first = key THEN <<m[pos]>> ELSE << >>

\* The values stored under key, in iteration order (equal_range).
FindAll(m, key) ==
    LET hits == SelectSeq(m, LAMBDA e : e.first = key)
    IN  [i \in 1..Len(hits) |-> hits[i].second]

\* An insert that does not look for the key (multimap::insert).
MapInsert_Duplicating(m, key, val) ==
    InsertAt(m, UpperBound(m, key), Pair(key, val))

\* map::insert: inserts unless the key is present.
MapInsert(m, key, val) ==
    IF MultimapFind(m, key) # << >> THEN m
    ELSE InsertAt(m, LowerBound(m, key), Pair(key, val))

(***************************************************************************)
(* Primitives.                                                             *)
(***************************************************************************)
KIND_NAMESPACE == "KIND_NAMESPACE"
KIND_TYPE == "KIND_TYPE"
KIND_CLASS == "KIND_CLASS"
KIND_ENUM == "KIND_ENUM"
KIND_ENUM_CONSTANT == "KIND_ENUM_CONSTANT"
KIND_FUNCTION == "KIND_FUNCTION"
KIND_FIELD == "KIND_FIELD"

Kind == {KIND_NAMESPACE, KIND_TYPE, KIND_CLASS, KIND_ENUM,
         KIND_ENUM_CONSTANT, KIND_FUNCTION, KIND_FIELD}

MODIFIER_VALUE == "MODIFIER_VALUE"

\* Primitive(Kind k, Name n, Name p)
Primitive(k, n, p) == [kind |-> k, name |-> n, parent |-> p]

Namespace(n, p) == Primitive(KIND_NAMESPACE, n, p)

Type(n, p) == Primitive(KIND_TYPE, n, p)

Class(n, p, b, s) ==
    [kind |-> KIND_CLASS, name |-> n, parent |-> p, base_class |-> b, size |-> s]

Enum(n, p) == Primitive(KIND_ENUM, n, p)

EnumConstant(n, p, v) ==
    [kind |-> KIND_ENUM_CONSTANT, name |-> n, parent |-> p, value |-> v]

Function(n, p, uid) ==
    [kind |-> KIND_FUNCTION, name |-> n, parent |-> p, unique_id |-> uid]

\* Field(n, p, t, pass, c, o, uid) with the name and the parent exchanged.
Field_Swapped(n, p, t, pass, c, o, uid) ==
    [kind |-> KIND_FIELD, name |-> p, parent |-> n, type |-> t,
     modifier |-> pass, is_const |-> c, offset |-> o, parent_unique_id |-> uid]

Field(n, p, t, pass, c, o, uid) ==
    [kind |-> KIND_FIELD, name |-> n, parent |-> p, type |-> t,
     modifier |-> pass, is_const |-> c, offset |-> o, parent_unique_id |-> uid]

(***************************************************************************)
(* The database.                                                           *)
(***************************************************************************)
StoreNames == {"m_Namespaces", "m_Types", "m_Classes", "m_Enums",
               "m_EnumConstants", "m_Functions", "m_Fields", "m_UnnamedFields"}

\* Database::Database(): empty stores and a name table that holds the
\* reserved "no name" entry.
Database ==
    [m_Names |-> <<Pair(NoNameHash, T_empty)>>,
     m_Namespaces |-> << >>, m_Types |-> << >>, m_Classes |-> << >>,
     m_Enums |-> << >>, m_EnumConstants |-> << >>, m_Functions |-> << >>,
     m_Fields |-> << >>, m_UnnamedFields |-> << >>]

\* Name GetNoName() const
GetNoName(d) == MultimapFind(d.m_Names, NoNameHash)[1]

\* Name GetName(u32 hash) const: the entry, or end() (the empty sequence).
GetNameOfHash(d, hash) == MultimapFind(d.m_Names, hash)

\* The database after GetName(text).
Interned(d, text) ==
    [d EXCEPT !.m_Names = MapInsert(@, HashNameString(text), text)]

\* The Name that GetName(text) returns.
GetNameRef(d, text) ==
    MultimapFind(Interned(d, text).m_Names, HashNameString(text))[1]

\* GetPrimitiveStore with Enum mapped to the store of Type.
GetPrimitiveStore_EnumAsType(kind) ==
    CASE kind = KIND_NAMESPACE -> "m_Namespaces"
      [] kind = KIND_TYPE -> "m_Types"
      [] kind = KIND_CLASS -> "m_Classes"
      [] kind = KIND_ENUM -> "m_Types"
      [] kind = KIND_ENUM_CONSTANT -> "m_EnumConstants"
      [] kind = KIND_FUNCTION -> "m_Functions"
      [] kind = KIND_FIELD -> "m_Fields"

\* template <> PrimitiveStore<TYPE>& GetPrimitiveStore()
GetPrimitiveStore(kind) ==
    CASE kind = KIND_NAMESPACE -> "m_Namespaces"
      [] kind = KIND_TYPE -> "m_Types"
      [] kind = KIND_CLASS -> "m_Classes"
      [] kind = KIND_ENUM -> "m_Enums"
      [] kind = KIND_ENUM_CONSTANT -> "m_EnumConstants"
      [] kind = KIND_FUNCTION -> "m_Functions"
      [] kind = KIND_FIELD -> "m_Fields"

\* The store no build can use: assert(false), then *(PrimitiveStore<TYPE>*)0.
NullStore == "null"

\* GetUnnamedPrimitiveStore with the named Field store returned for Field.
GetUnnamedPrimitiveStore_Named(kind) ==
    IF kind = KIND_FIELD THEN "m_Fields" ELSE NullStore

\* template <typename TYPE> PrimitiveStore<TYPE>& GetUnnamedPrimitiveStore()
GetUnnamedPrimitiveStore(kind) ==
    IF kind = KIND_FIELD THEN "m_UnnamedFields" ELSE NullStore

\* The test of AddPrimitive with function parameters taken for unnamed.
IsUnnamed_OrParameter(d, prim) ==
    \/ prim.name = GetNoName(d)
    \/ prim.kind = KIND_FIELD /\ prim.parent_unique_id # 0

\* if (prim.name == GetNoName())
IsUnnamed(d, prim) == prim.name = GetNoName(d)

\* The store AddPrimitive inserts into.
AddPrimitiveStore(d, prim) ==
    IF IsUnnamed(d, prim) THEN GetUnnamedPrimitiveStore(prim.kind)
    ELSE GetPrimitiveStore(prim.kind)

\* The key AddPrimitive inserts under: prim.parent->first or prim.name->first.
AddPrimitiveKey(d, prim) ==
    IF IsUnnamed(d, prim) THEN prim.parent.first ELSE prim.name.first

\* The database after an AddPrimitive(prim) that has a store to insert into.
Inserted(d, prim) ==
    [d EXCEPT ![AddPrimitiveStore(d, prim)] =
        MultimapInsert(@, AddPrimitiveKey(d, prim), prim)]

\* Number of primitives of a database.
Size(d) ==
    Len(d.m_Namespaces) + Len(d.m_Types) + Len(d.m_Classes) + Len(d.m_Enums)
    + Len(d.m_EnumConstants) + Len(d.m_Functions) + Len(d.m_Fields)
    + Len(d.m_UnnamedFields)

\* The entries of theirs inserted one by one, in their iteration order.
RECURSIVE MergeStore(_, _)
MergeStore(mine, theirs) ==
    IF theirs = << >> THEN mine
    ELSE MergeStore(MultimapInsert(mine, Head(theirs).first, Head(theirs).second),
                    Tail(theirs))

\* The database after Merge(other).
Merged(d, other) ==
    [f \in DOMAIN d |->
        IF f \in StoreNames THEN MergeStore(d[f], other[f]) ELSE d[f]]

\* The built-in types of AddBaseTypePrimitives.
BaseTypeNames == <<T_int>>

(***************************************************************************)
(* The arguments the callers pass.                                         *)
(***************************************************************************)
Names(d) == {d.m_Names[i] : i \in 1..Len(d.m_Names)}

\* The strings that name scopes.
ScopeTexts == {T_empty, T_Foo}

\* A Field is given the global scope or a named scope as its parent, every
\* other primitive the global scope.
ParentArgs(d, kind) ==
    IF kind = KIND_FIELD THEN {n \in Names(d) : n.second \in ScopeTexts}
    ELSE {GetNoName(d)}

\* A Type or a Field is given any name of the table, every other primitive
\* no name or the name of a scope.
NameArgs(d, kind) ==
    IF kind \in {KIND_TYPE, KIND_FIELD} THEN Names(d)
    ELSE {n \in Names(d) : n.second \in ScopeTexts}

\* A Field of a named scope is a member (0) or a parameter of function 1.
UniqueIdArgs(d, p) == IF p = GetNoName(d) THEN {0} ELSE {0, 1}

\* The primitives of one kind, name and parent that the callers construct
\* while they walk translation unit number unit, which numbers its functions.
Constructed(d, kind, n, p, unit) ==
    CASE kind = KIND_NAMESPACE -> {Namespace(n, p)}
      [] kind = KIND_TYPE -> {Type(n, p)}
      [] kind = KIND_CLASS -> {Class(n, p, GetNoName(d), 8)}
      [] kind = KIND_ENUM -> {Enum(n, p)}
      [] kind = KIND_ENUM_CONSTANT -> {EnumConstant(n, p, 1)}
      [] kind = KIND_FUNCTION -> {Function(n, p, unit)}
      [] kind = KIND_FIELD ->
            {Field(n, p, GetNoName(d), MODIFIER_VALUE, FALSE, 0, uid) :
                uid \in UniqueIdArgs(d, p)}

\* The constructor arguments: kind, name and parent.
HeaderArgs(d) ==
    {<<k, n, p>> \in Kind \X Names(d) \X Names(d) :
        n \in NameArgs(d, k) /\ p \in ParentArgs(d, k)}

PrimArgs(d, unit) ==
    UNION {Constructed(d, h[1], h[2], h[3], unit) : h \in HeaderArgs(d)}

\* The translation unit of this database and that of the merged ones.
ThisUnit == 1
OtherUnit == 2

(***************************************************************************)
(* The databases handed to Merge: built by GetName and AddPrimitive.       *)
(***************************************************************************)
RECURSIVE InternedAll(_, _)
InternedAll(d, texts) ==
    IF texts = << >> THEN d
    ELSE InternedAll(Interned(d, Head(texts)), Tail(texts))

OtherNameTables == {InternedAll(Database, <<T_int, T_Foo>>)}

RECURSIVE Grown(_, _)
Grown(dbs, n) ==
    IF n = 0 THEN dbs
    ELSE Grown(dbs \cup UNION {{Inserted(d, prim) :
                                   prim \in {q \in PrimArgs(d, OtherUnit) :
                                                AddPrimitiveStore(d, q) # NullStore}} :
                               d \in dbs},
               n - 1)

OtherDbs == Grown(OtherNameTables, MaxOther)

\* The databases to merge, by their number of primitives.
OtherDbsOfSize == [n \in 0..MaxOther |-> {o \in OtherDbs : Size(o) = n}]

\* The databases that fit into a database that holds size primitives.
OtherArgs(size) ==
    UNION {OtherDbsOfSize[n] : n \in {k \in 0..MaxOther : size + k <= MaxPrims}}

(***************************************************************************)
(* The operations.                                                         *)
(***************************************************************************)
Running == halted = "no"

Init ==
    /\ db = Database
    /\ last = "Database"
    /\ halted = "no"

\* Name GetName(const char* text)
GetName(text) ==
    /\ Running
    /\ db' = Interned(db, text)
    /\ last' = "GetName"
    /\ UNCHANGED halted

\* template <typename TYPE> void AddPrimitive(const TYPE& prim)
AddPrimitive(prim) ==
    /\ Running
    /\ last' = "AddPrimitive"
    /\ IF AddPrimitiveStore(db, prim) = NullStore
       THEN \* assert(false) aborts; with NDEBUG the insert goes through a
            \* null reference.
            /\ halted' \in {"assert", "null_store"}
            /\ UNCHANGED db
       ELSE /\ Size(db) < MaxPrims
            /\ db' = Inserted(db, prim)
            /\ UNCHANGED halted

\* The database after a GetFirstPrimitive that interns name_string.
AfterGetFirstPrimitive_Interning(d, kind, name_string) == Interned(d, name_string)

\* The database after GetFirstPrimitive, a const member function.
AfterGetFirstPrimitive(d, kind, name_string) == d

\* What GetFirstPrimitive returns: a pointer to the primitive, or 0 (the
\* empty sequence).
FirstPrimitive(d, kind, name_string) ==
    LET store == d[GetPrimitiveStore(kind)]
        name == HashNameString(name_string)
        i == MultimapFind(store, name)
    IN  IF i # << >> THEN <<i[1].second>> ELSE << >>

\* template <typename TYPE> const TYPE* GetFirstPrimitive(const char*) const
GetFirstPrimitive(kind, name_string) ==
    /\ Running
    /\ db' = AfterGetFirstPrimitive(db, kind, name_string)
    /\ last' = "GetFirstPrimitive"
    /\ UNCHANGED halted

\* void Merge(const Database& db)
Merge(other) ==
    /\ Running
    /\ Size(db) + Size(other) <= MaxPrims
    /\ db' = Merged(db, other)
    /\ last' = "Merge"
    /\ UNCHANGED halted

\* void AddBaseTypePrimitives(): each built-in type is interned and added
\* as a Type of the global scope.
RECURSIVE WithBaseTypes(_, _)
WithBaseTypes(d, texts) ==
    IF texts = << >> THEN d
    ELSE LET e == Interned(d, Head(texts))
             prim == Type(GetNameRef(d, Head(texts)), GetNoName(d))
         IN  WithBaseTypes(Inserted(e, prim), Tail(texts))

AddBaseTypePrimitives ==
    /\ Running
    /\ Size(db) + Len(BaseTypeNames) <= MaxPrims
    /\ db' = WithBaseTypes(db, BaseTypeNames)
    /\ last' = "AddBaseTypePrimitives"
    /\ UNCHANGED halted

Next ==
    \/ \E text \in Texts : GetName(text)
    \/ \E prim \in PrimArgs(db, ThisUnit) : AddPrimitive(prim)
    \/ \E kind \in Kind, text \in LookupTexts : GetFirstPrimitive(kind, text)
    \/ \E other \in OtherArgs(Size(db)) : Merge(other)
    \/ AddBaseTypePrimitives

Spec == Init /\ [][Next]_vars

\* The name table alone: the callers only intern strings.
NextNames == \E text \in NameTexts : GetName(text)

SpecNames == Init /\ [][NextNames]_vars

(***************************************************************************)
(* Notions the properties are stated with.                                 *)
(***************************************************************************)
Hashes == 0..(HashModulus - 1)

\* The named store the interface promises for each kind.
NamedStoreOf ==
    [KIND_NAMESPACE |-> "m_Namespaces", KIND_TYPE |-> "m_Types",
     KIND_CLASS |-> "m_Classes", KIND_ENUM |-> "m_Enums",
     KIND_ENUM_CONSTANT |-> "m_EnumConstants", KIND_FUNCTION |-> "m_Functions",
     KIND_FIELD |-> "m_Fields"]

NoName == Pair(NoNameHash, T_empty)

\* prim was appended to the entries of key in store, and nothing else changed
\* in any store.
AddedOnlyTo(store, key, prim) ==
    /\ FindAll(db'[store], key) = Append(FindAll(db[store], key), prim)
    /\ Len(db'[store]) = Len(db[store]) + 1
    /\ SelectSeq(db'[store], LAMBDA e : e.first # key)
          = SelectSeq(db[store], LAMBDA e : e.first # key)
    /\ \A f \in StoreNames \ {store} : db'[f] = db[f]

\* The primitives a database stores.
StoredPrims(d) ==
    UNION {{d[f][i].second : i \in 1..Len(d[f])} : f \in StoreNames}

\* The arguments an AddPrimitive step can have had: a primitive stored after
\* the step, or any argument when the step halted the program.
AddedArgs ==
    IF halted' = "no" THEN StoredPrims(db') ELSE PrimArgs(db, ThisUnit)

\* The arguments a Merge step can have had: the databases that hold, store
\* by store, as many primitives as the step added.
MergedArgs ==
    {other \in OtherArgs(Size(db)) :
        \A f \in StoreNames : Len(db[f]) + Len(other[f]) = Len(db'[f])}

\* s is t with some of its elements left out.
RECURSIVE IsSubsequence(_, _)
IsSubsequence(s, t) ==
    IF s = << >> THEN TRUE
    ELSE IF t = << >> THEN FALSE
    ELSE IF Head(s) = Head(t) THEN IsSubsequence(Tail(s), Tail(t))
    ELSE IsSubsequence(s, Tail(t))

(***************************************************************************)
(* C1.  As claimed: every AddPrimitive(p) adds exactly one entry, to the   *)
(* unnamed Field store under the hash of p.parent when p.name is the no    *)
(* name, else to the named store of p's kind under the hash of p.name, and *)
(* changes no other store.                                                 *)
(***************************************************************************)
C1_EveryPrimitiveIsStored ==
    [][last' = "AddPrimitive" =>
        \A prim \in AddedArgs : AddPrimitive(prim) =>
            IF prim.name = NoName
            THEN AddedOnlyTo("m_UnnamedFields", prim.parent.first, prim)
            ELSE AddedOnlyTo(NamedStoreOf[prim.kind], prim.name.first, prim)]_vars

\* C1, amended: the same for every primitive that is a Field or has a name.
C1_FieldOrNamedIsStored ==
    [][last' = "AddPrimitive" =>
        \A prim \in AddedArgs : AddPrimitive(prim) =>
            /\ (prim.kind = KIND_FIELD /\ prim.name = NoName)
                => AddedOnlyTo("m_UnnamedFields", prim.parent.first, prim)
            /\ prim.name # NoName
                => AddedOnlyTo(NamedStoreOf[prim.kind], prim.name.first, prim)]_vars

\* An unnamed Field under its parent's key beside a named Enum and a named
\* Field, each under its own name's key, after an AddPrimitive.
C1_Witness ==
    /\ last = "AddPrimitive"
    /\ halted = "no"
    /\ \E i \in 1..Len(db.m_UnnamedFields) :
          /\ db.m_UnnamedFields[i].second.name = NoName
          /\ db.m_UnnamedFields[i].first = HashNameString(T_Foo)
          /\ db.m_UnnamedFields[i].second.parent.second = T_Foo
    /\ \E i \in 1..Len(db.m_Enums) :
          db.m_Enums[i].first = db.m_Enums[i].second.name.first
    /\ \E i \in 1..Len(db.m_Fields) :
          db.m_Fields[i].first = HashNameString(T_int)

(***************************************************************************)
(* C2.  The entries of a name are kept in insertion order without          *)
(* deduplication: AddPrimitive of a named primitive appends it to the      *)
(* entries of its name in the store of its kind, whatever is stored under  *)
(* other keys, and GetFirstPrimitive returns the first of these entries.   *)
(***************************************************************************)
FirstIsEarliest(d) ==
    \A kind \in Kind, text \in LookupTexts :
        LET all == FindAll(d[NamedStoreOf[kind]], HashNameString(text))
        IN  FirstPrimitive(d, kind, text) =
                IF all = << >> THEN << >> ELSE <<all[1]>>

C2_InsertionOrderKept ==
    [][/\ FirstIsEarliest(db')
       /\ (last' = "AddPrimitive" /\ halted' = "no") =>
             \A prim \in AddedArgs :
                (AddPrimitive(prim) /\ prim.name # NoName) =>
                    LET store == NamedStoreOf[prim.kind]
                        old == FindAll(db[store], prim.name.first)
                        new == FindAll(db'[store], prim.name.first)
                    IN  /\ Len(new) = Len(old) + 1
                        /\ SubSeq(new, 1, Len(old)) = old
                        /\ new[Len(new)] = prim
                        /\ SelectSeq(db'[store], LAMBDA e : e.first # prim.name.first)
                              = SelectSeq(db[store], LAMBDA e : e.first # prim.name.first)]_vars

\* The Field named "Foo" was added twice with different parents, a Field
\* named "int" is stored too, and the lookup of "Foo" yields the first.
C2_Witness ==
    /\ last = "GetFirstPrimitive"
    /\ LET all == FindAll(db.m_Fields, HashNameString(T_Foo))
       IN  /\ Len(all) = 2
           /\ all[1] # all[2]
           /\ FirstPrimitive(db, KIND_FIELD, T_Foo) = <<all[1]>>
    /\ FindAll(db.m_Fields, HashNameString(T_int)) # << >>

(***************************************************************************)
(* C3.  After Merge(B), every key of every store (the seven named ones and *)
(* the unnamed Field store) holds the entries it held before, in their     *)
(* order, followed by B's entries of that key, in B's order.               *)
(***************************************************************************)
C3_MergeConcatenates ==
    [][last' = "Merge" =>
        \A other \in MergedArgs : Merge(other) =>
            \A f \in StoreNames, h \in Hashes :
                FindAll(db'[f], h) = FindAll(db[f], h) \o FindAll(other[f], h)]_vars

\* After a Merge the functions named "Foo" are one of this translation unit
\* followed by one of the merged database, and the unnamed Field store is
\* not empty.
C3_Witness ==
    /\ last = "Merge"
    /\ LET all == FindAll(db.m_Functions, HashNameString(T_Foo))
       IN  /\ Len(all) = 2
           /\ all[1].unique_id = ThisUnit
           /\ all[2].unique_id = OtherUnit
    /\ db.m_UnnamedFields # << >>

(***************************************************************************)
(* C4.  No entry of the named Field store has the no name, and every entry *)
(* of the unnamed Field store has the no name and is stored under the hash *)
(* of its parent.                                                          *)
(***************************************************************************)
C4_AnonymousFieldsByParent ==
    /\ \A i \in 1..Len(db.m_Fields) :
          /\ db.m_Fields[i].second.name # GetNoName(db)
          /\ db.m_Fields[i].first = db.m_Fields[i].second.name.first
    /\ \A i \in 1..Len(db.m_UnnamedFields) :
          /\ db.m_UnnamedFields[i].second.name = GetNoName(db)
          /\ db.m_UnnamedFields[i].first = db.m_UnnamedFields[i].second.parent.first

\* Anonymous Fields of the global scope and of "Foo" beside a named Field.
C4_Witness ==
    /\ last = "AddPrimitive"
    /\ FindAll(db.m_UnnamedFields, NoNameHash) # << >>
    /\ FindAll(db.m_UnnamedFields, HashNameString(T_Foo)) # << >>
    /\ db.m_Fields # << >>

(***************************************************************************)
(* C5.  As claimed: a Field with a nonzero parent_unique_id is stored in   *)
(* the unnamed Field store under the hash of its parent, and not in the    *)
(* named Field store, whether it has a name or not.                        *)
(***************************************************************************)
C5_ParameterIndexedByScope ==
    [][last' = "AddPrimitive" =>
        \A prim \in AddedArgs :
            (AddPrimitive(prim) /\ prim.kind = KIND_FIELD
                /\ prim.parent_unique_id # 0) =>
                /\ FindAll(db'.m_UnnamedFields, prim.parent.first)
                      = Append(FindAll(db.m_UnnamedFields, prim.parent.first), prim)
                /\ db'.m_Fields = db.m_Fields]_vars

\* C5, amended: such a Field is stored under the hash of its parent only
\* when it has no name; with a name it is stored in the named Field store
\* under the hash of its name, like every other Field.
C5_ParameterIndexedLikeAnyField ==
    [][last' = "AddPrimitive" =>
        \A prim \in AddedArgs :
            (AddPrimitive(prim) /\ prim.kind = KIND_FIELD
                /\ prim.parent_unique_id # 0) =>
                IF prim.name = NoName
                THEN AddedOnlyTo("m_UnnamedFields", prim.parent.first, prim)
                ELSE AddedOnlyTo("m_Fields", prim.name.first, prim)]_vars

\* A named parameter in the named Field store and an anonymous parameter in
\* the unnamed one.
C5_Witness ==
    /\ last = "AddPrimitive"
    /\ \E i \in 1..Len(db.m_Fields) :
          /\ db.m_Fields[i].second.parent_unique_id # 0
          /\ db.m_Fields[i].first = HashNameString(T_int)
    /\ \E i \in 1..Len(db.m_UnnamedFields) :
          db.m_UnnamedFields[i].second.parent_unique_id # 0

(***************************************************************************)
(* C6.  GetFirstPrimitive of a string with no entry in the named store of  *)
(* the kind returns the null pointer without halting the program, and no   *)
(* GetFirstPrimitive changes the name table or a store.                    *)
(***************************************************************************)
C6_LookupMissIsPure ==
    [][last' = "GetFirstPrimitive" =>
        \A kind \in Kind, text \in LookupTexts :
            GetFirstPrimitive(kind, text) =>
                /\ db' = db
                /\ halted' = "no"
                /\ FindAll(db[NamedStoreOf[kind]], HashNameString(text)) = << >>
                      => FirstPrimitive(db', kind, text) = << >>]_vars

\* A lookup in a database that holds a Class "Foo" and never interned "int":
\* no Class "int" is found.
C6_Witness ==
    /\ last = "GetFirstPrimitive"
    /\ halted = "no"
    /\ db.m_Classes # << >>
    /\ GetNameOfHash(db, HashNameString(T_int)) = << >>
    /\ FirstPrimitive(db, KIND_CLASS, T_int) = << >>

(***************************************************************************)
(* C7.  AddPrimitive of an unnamed Namespace, Type, Class, Enum,           *)
(* EnumConstant or Function ends in the assertion failure and inserts      *)
(* nothing; AddPrimitive of a Field never does.                            *)
(***************************************************************************)
C7_UnnamedNonFieldAsserts ==
    [][last' = "AddPrimitive" =>
        \A prim \in AddedArgs : AddPrimitive(prim) =>
            IF prim.kind # KIND_FIELD /\ prim.name = NoName
            THEN halted' = "assert" /\ db' = db
            ELSE halted' = "no"]_vars

(***************************************************************************)
(* C8.  As claimed: the parent of every stored primitive is the global     *)
(* scope or the name of a stored Namespace, Class or Function.             *)
(***************************************************************************)
ScopeStores == {"m_Namespaces", "m_Classes", "m_Functions"}

\* The Name p is the global scope or names a scope stored in d.
ParentDeclared(d, p) ==
    \/ p.first = NoNameHash
    \/ \E g \in ScopeStores : \E j \in 1..Len(d[g]) :
          d[g][j].second.name.first = p.first

ParentsDeclared(d) ==
    \A f \in StoreNames : \A i \in 1..Len(d[f]) :
        ParentDeclared(d, d[f][i].second.parent)

C8_ParentsDeclared == ParentsDeclared(db)

\* C8, amended: AddPrimitive stores the parent it is given unchecked; the
\* parents stay declared over every call whose arguments respect this: an
\* AddPrimitive of a primitive constructed with a declared parent, a Merge
\* of a database whose parents are declared, or any other call.
C8_ParentsStayDeclared ==
    [][(/\ ParentsDeclared(db)
        /\ last' = "AddPrimitive" =>
              \E prim \in AddedArgs :
                 /\ AddPrimitive(prim)
                 /\ \E h \in HeaderArgs(db) :
                       /\ ParentDeclared(db, h[3])
                       /\ prim \in Constructed(db, h[1], h[2], h[3], ThisUnit)
        /\ last' = "Merge" =>
              \E other \in MergedArgs :
                 Merge(other) /\ ParentsDeclared(other))
       => ParentsDeclared(db')]_vars

\* A Class "Foo" with a member and a parameter whose parent is "Foo".
C8_Witness ==
    /\ ParentsDeclared(db)
    /\ db.m_Classes # << >>
    /\ \E i \in 1..Len(db.m_Fields) :
          db.m_Fields[i].second.parent.second = T_Foo
    /\ \E i \in 1..Len(db.m_UnnamedFields) :
          db.m_UnnamedFields[i].second.parent.second = T_Foo

(***************************************************************************)
(* C9.  As claimed: GetName of a string leaves one entry for it in the     *)
(* name table, GetName of the same string again returns the same Name and  *)
(* changes nothing, the entry of the returned hash holds the string, and   *)
(* strings of different hashes get different Names.                        *)
(***************************************************************************)
EntriesOf(m, key) == {i \in 1..Len(m) : m[i].first = key}

Idempotent(text) ==
    /\ Cardinality(EntriesOf(db'.m_Names, HashNameString(text))) = 1
    /\ Interned(db', text) = db'
    /\ GetNameRef(db', text) = GetNameRef(db, text)

DistinctNames ==
    \A s, t \in NameTexts :
        HashNameString(s) # HashNameString(t)
            => GetNameRef(db', s) # GetNameRef(db', t)

RoundTrip(text) ==
    GetNameOfHash(db', GetNameRef(db, text).first)
        = <<Pair(HashNameString(text), text)>>

C9_InternRoundTrips ==
    [][last' = "GetName" =>
        \A text \in NameTexts : GetName(text) =>
            Idempotent(text) /\ DistinctNames /\ RoundTrip(text)]_vars

\* C9, amended: the entry of the returned hash holds the string unless a
\* different string of the same hash (the no name's empty string included)
\* was in the table before; then it still holds that earlier string.
C9_InternRoundTripsUnlessCollision ==
    [][last' = "GetName" =>
        \A text \in NameTexts : GetName(text) =>
            /\ Idempotent(text)
            /\ DistinctNames
            /\ LET before == GetNameOfHash(db, HashNameString(text))
               IN  IF before = << >> \/ before[1].second = text
                   THEN RoundTrip(text)
                   ELSE GetNameOfHash(db', HashNameString(text)) = before]_vars

\* "oof" was interned after "Foo", which has its hash, and "int" as well.
C9_Witness ==
    /\ last = "GetName"
    /\ GetNameOfHash(db, HashNameString(T_oof)) = <<Pair(HashNameString(T_Foo), T_Foo)>>
    /\ GetNameOfHash(db, HashNameString(T_int)) = <<Pair(HashNameString(T_int), T_int)>>
    /\ Len(db.m_Names) >= 4

(***************************************************************************)
(* C10.  No call removes or changes an entry: every store and the name     *)
(* table keep their elements, with their keys and values, in their order.  *)
(***************************************************************************)
C10_AppendOnly ==
    [][/\ \A f \in StoreNames : IsSubsequence(db[f], db'[f])
       /\ IsSubsequence(db.m_Names, db'.m_Names)]_vars

\* A full database after a Merge, with two Types under one name.
C10_Witness ==
    /\ last = "Merge"
    /\ Size(db) = MaxPrims
    /\ Len(FindAll(db.m_Types, HashNameString(T_int))) >= 2
    /\ Len(db.m_Names) = 3

====
